---- MODULE Spec2Model ----
(***************************************************************************)
(* A model of the property analyzer: the financial calculation of          *)
(* src/src/services/property_analyzer.py, the records of                   *)
(* src/src/models/property.py, and the POST /api/analyze handler of        *)
(* src/src/api/app.py with the part of the document store it writes.       *)
(*                                                                         *)
(* Numbers.  The program computes with Python floats.  The model computes  *)
(* with exact rationals [n |-> numerator, d |-> denominator] kept in       *)
(* lowest terms with d > 0, so the formulas are checked as formulas over   *)
(* the reals; the rounding of IEEE-754 doubles is not modelled.  What      *)
(* Python does on a division by zero (it raises ZeroDivisionError, it      *)
(* never yields an infinity) is modelled: every function that can raise    *)
(* returns a result record [error |-> ..., value |-> ...].                 *)
(***************************************************************************)
EXTENDS Integers, Sequences, FiniteSets, TLC

VARIABLES
    args,              \* the (property, assumptions) a caller built, before the call
    property_data,     \* the Property object, after the call
    assumptions,       \* the FinancialAssumptions object, after the call
    analysis,          \* what calculate_property_analysis did: a result record
    payment_call,      \* the last direct call of calculate_mortgage_payment
    calls,             \* how many calls the caller has made
    firestore_service, \* TRUE: the FirestoreService was built; FALSE: it is None
    analyses,          \* the analyses collection: document id -> document
    properties,        \* the properties collection: document id -> document
    endpoint,          \* the handler or the service method that was called last
    request,           \* what it was called with: the JSON body of a POST, the
                       \* arguments of a GET or of a service method
    response,          \* what it answered: the HTTP response, or the value returned
    report             \* what the last direct call of generate_analysis_report returned

vars == <<args, property_data, assumptions, analysis, payment_call, calls,
          firestore_service, analyses, properties, endpoint, request, response, report>>

-----------------------------------------------------------------------------
(* Exact rational arithmetic, standing for Python's float operators.       *)

Abs(x) == IF x < 0 THEN -x ELSE x

RECURSIVE Gcd(_, _)
Gcd(a, b) == IF b = 0 THEN a ELSE Gcd(b, a % b)

\* The rational n/d (d # 0) in lowest terms with a positive denominator.
Rat(n, d) ==
    LET g == Gcd(Abs(n), Abs(d))
        s == IF d < 0 THEN -1 ELSE 1
    IN  [n |-> s * (n \div g), d |-> s * (d \div g)]

R(k) == [n |-> k, d |-> 1]

Zero == R(0)

One == R(1)

RNeg(a) == [n |-> -a.n, d |-> a.d]

\* a + b, over the least common denominator.
RAdd(a, b) ==
    LET g == Gcd(a.d, b.d)
    IN  Rat(a.n * (b.d \div g) + b.n * (a.d \div g), (a.d \div g) * b.d)

RSub(a, b) == RAdd(a, RNeg(b))

\* a * b, cancelling across before multiplying.
RMul(a, b) ==
    LET g1 == Gcd(Abs(a.n), b.d)
        g2 == Gcd(Abs(b.n), a.d)
    IN  IF a.n = 0 \/ b.n = 0 THEN Zero
        ELSE [n |-> (a.n \div g1) * (b.n \div g2), d |-> (a.d \div g2) * (b.d \div g1)]

\* a / b for b # 0; the callers raise ZeroDivisionError themselves when b = 0.
RDiv(a, b) == RMul(a, IF b.n < 0 THEN [n |-> -b.d, d |-> -b.n] ELSE [n |-> b.d, d |-> b.n])

RIsZero(a) == a.n = 0

RGtZero(a) == a.n > 0

\* math.pow(a, k) for an integer k >= 0 (math.pow(a, 0) is 1.0 for every a).
RECURSIVE RPow(_, _)
RPow(a, k) == IF k = 0 THEN One ELSE RMul(a, RPow(a, k - 1))

\* Python's x / y on floats: raises ZeroDivisionError when y is zero.
NoError == "NoError"

ZeroDivisionError == "ZeroDivisionError"

Returned(v) == [error |-> NoError, value |-> v]

Raised(e) == [error |-> e, value |-> Zero]

-----------------------------------------------------------------------------
(* PropertyAnalyzerService.calculate_mortgage_payment                      *)

\* The standard annuity formula of the non-zero-rate branch.
AnnuityPayment(loan_amount, annual_rate, years) ==
    LET monthly_rate == RDiv(RDiv(annual_rate, R(100)), R(12))
        num_payments == years * 12
        growth       == RPow(RAdd(One, monthly_rate), num_payments)
        denominator  == RSub(growth, One)
    IN  IF RIsZero(denominator) THEN Raised(ZeroDivisionError)
        ELSE Returned(RDiv(RMul(loan_amount, RMul(monthly_rate, growth)), denominator))

\* Mutant: the annuity formula also at a rate of 0 (the guard of line 28 lost).
calculate_mortgage_payment_unguarded(loan_amount, annual_rate, years) ==
    AnnuityPayment(loan_amount, annual_rate, years)

calculate_mortgage_payment(loan_amount, annual_rate, years) ==
    IF RIsZero(annual_rate)
    THEN IF years * 12 = 0 THEN Raised(ZeroDivisionError)
         ELSE Returned(RDiv(loan_amount, R(years * 12)))
    ELSE AnnuityPayment(loan_amount, annual_rate, years)

-----------------------------------------------------------------------------
(* PropertyAnalyzerService.calculate_property_analysis, one operator for   *)
(* each local of the function; p is property_data, a is assumptions.       *)

NONE == "<None>"

down_payment(p, a) == RMul(p.purchase_price, RDiv(a.down_payment_percentage, R(100)))

loan_amount(p, a) == RSub(p.purchase_price, down_payment(p, a))

\* Mutant: closing costs taken on the loan amount instead of the price.
closing_costs_on_loan(p, a) ==
    RMul(loan_amount(p, a), RDiv(a.closing_costs_percentage, R(100)))

closing_costs(p, a) == RMul(p.purchase_price, RDiv(a.closing_costs_percentage, R(100)))

total_cash_needed(p, a) == RAdd(down_payment(p, a), closing_costs(p, a))

\* A result record: the call of calculate_mortgage_payment may raise.
monthly_mortgage(p, a) ==
    calculate_mortgage_payment(loan_amount(p, a), a.interest_rate, a.loan_term_years)

vacancy_loss(a) == RMul(a.monthly_rent, RDiv(a.vacancy_rate, R(100)))

monthly_rental_income(a) ==
    RAdd(RSub(a.monthly_rent, vacancy_loss(a)), a.other_monthly_income)

\* Mutant: maintenance taken on the rent net of vacancy.
monthly_maintenance_on_net_rent(a) ==
    RMul(RSub(a.monthly_rent, vacancy_loss(a)), RDiv(a.maintenance_percentage, R(100)))

monthly_maintenance(a) == RMul(a.monthly_rent, RDiv(a.maintenance_percentage, R(100)))

monthly_property_management(a) ==
    RMul(a.monthly_rent, RDiv(a.property_management_percentage, R(100)))

monthly_expenses(a) ==
    RAdd(RAdd(RAdd(RAdd(RAdd(RDiv(a.property_tax_annual, R(12)),
                             RDiv(a.insurance_annual, R(12))),
                        a.hoa_monthly),
                   monthly_maintenance(a)),
              monthly_property_management(a)),
         a.utilities_monthly)

\* Mutant: the cash flow before debt service.
monthly_cash_flow_before_debt(p, a) ==
    RSub(monthly_rental_income(a), monthly_expenses(a))

\* The locals below are read only once calculate_mortgage_payment has returned.
monthly_cash_flow(p, a) ==
    RSub(RSub(monthly_rental_income(a), monthly_expenses(a)), monthly_mortgage(p, a).value)

annual_cash_flow(p, a) == RMul(monthly_cash_flow(p, a), R(12))

annual_noi(a) == RMul(RSub(monthly_rental_income(a), monthly_expenses(a)), R(12))

cash_on_cash_return(p, a) ==
    IF RGtZero(total_cash_needed(p, a))
    THEN RMul(RDiv(annual_cash_flow(p, a), total_cash_needed(p, a)), R(100))
    ELSE Zero

\* Mutant: a capitalization rate taken on the cash flow after debt service.
cap_rate_after_debt(p, a) ==
    IF RGtZero(p.purchase_price)
    THEN RMul(RDiv(annual_cash_flow(p, a), p.purchase_price), R(100))
    ELSE Zero

cap_rate(p, a) ==
    IF RGtZero(p.purchase_price)
    THEN RMul(RDiv(annual_noi(a), p.purchase_price), R(100))
    ELSE Zero

\* Mutant: a return on investment that is not the cash-on-cash return (the
\* cash flow over the down payment alone).
annual_roi_on_down_payment(p, a) ==
    IF RGtZero(down_payment(p, a))
    THEN RMul(RDiv(annual_cash_flow(p, a), down_payment(p, a)), R(100))
    ELSE Zero

annual_roi(p, a) ==
    IF RGtZero(total_cash_needed(p, a))
    THEN RMul(RDiv(annual_cash_flow(p, a), total_cash_needed(p, a)), R(100))
    ELSE Zero

\* Mutant: the value a year after the holding period.
future_value_a_year_on(p, a) ==
    RMul(p.purchase_price,
         RPow(RAdd(One, RDiv(a.appreciation_rate, R(100))), a.holding_period_years + 1))

future_value(p, a) ==
    RMul(p.purchase_price,
         RPow(RAdd(One, RDiv(a.appreciation_rate, R(100))), a.holding_period_years))

\* Line 111 divides by loan_amount; it is read only when loan_amount is not 0.
principal_paid(p, a) ==
    LET loan == loan_amount(p, a)
        paid_share == RDiv(RMul(monthly_mortgage(p, a).value, R(12)), loan)
    IN  RSub(loan, RMul(loan, RPow(RSub(One, paid_share), a.holding_period_years)))

total_equity(p, a) ==
    RAdd(RAdd(down_payment(p, a), principal_paid(p, a)),
         RSub(future_value(p, a), p.purchase_price))

total_profit(p, a) ==
    RSub(RAdd(RMul(annual_cash_flow(p, a), R(a.holding_period_years)), total_equity(p, a)),
         total_cash_needed(p, a))

\* Mutant: property_id copied as it is (the "or ''" lost).
PropertyIdAsGiven(p) == p.property_id

\* property_data.property_id or '': None and '' both give ''.
PropertyIdOrEmpty(p) == IF p.property_id = NONE \/ p.property_id = "" THEN "" ELSE p.property_id

\* The PropertyAnalysis built at lines 117-135; now is datetime.now().
PropertyAnalysis(p, a, now) ==
    [property_id              |-> PropertyIdOrEmpty(p),
     analysis_date            |-> now,
     purchase_price           |-> p.purchase_price,
     down_payment             |-> down_payment(p, a),
     loan_amount              |-> loan_amount(p, a),
     closing_costs            |-> closing_costs(p, a),
     total_cash_needed        |-> total_cash_needed(p, a),
     monthly_rental_income    |-> monthly_rental_income(a),
     monthly_expenses         |-> monthly_expenses(a),
     monthly_mortgage_payment |-> monthly_mortgage(p, a).value,
     monthly_cash_flow        |-> monthly_cash_flow(p, a),
     annual_cash_flow         |-> annual_cash_flow(p, a),
     annual_roi               |-> annual_roi(p, a),
     cash_on_cash_return      |-> cash_on_cash_return(p, a),
     cap_rate                 |-> cap_rate(p, a),
     total_profit             |-> total_profit(p, a),
     total_equity             |-> total_equity(p, a),
     irr                      |-> NONE,
     analysis_id              |-> NONE,
     created_at               |-> NONE]

\* The analysis no call has produced (also the value of a result that raised).
NoAnalysis == [property_id |-> NONE]

\* The whole function: the mortgage call at line 63 may raise, then line 111
\* divides by loan_amount; lines 97-99 are guarded and cannot raise.
calculate_property_analysis(p, a, now) ==
    LET raised == monthly_mortgage(p, a).error
    IN  IF raised # NoError
    THEN [error |-> raised, value |-> NoAnalysis]
    ELSE IF RIsZero(loan_amount(p, a))
    THEN [error |-> ZeroDivisionError, value |-> NoAnalysis]
    ELSE [error |-> NoError, value |-> PropertyAnalysis(p, a, now)]

\* Mutant: the function normalises the property_id of the object it was given.
PropertyAfterAnalysisNormalised(p) == [p EXCEPT !.property_id = PropertyIdOrEmpty(p)]

\* The function assigns to no attribute of its arguments: the objects it was
\* given are, after the call, what they were before it.
PropertyAfterAnalysis(p) == p

AssumptionsAfterAnalysis(a) == a

-----------------------------------------------------------------------------
(* PropertyAnalyzerService.generate_analysis_report.  A rendered string is *)
(* the sequence of its characters.                                         *)

Digit == <<"0", "1", "2", "3", "4", "5", "6", "7", "8", "9">>

\* str(n) for an integer n >= 0.
RECURSIVE Digits(_)
Digits(n) == IF n < 10 THEN <<Digit[n + 1]>> ELSE Digits(n \div 10) \o <<Digit[(n % 10) + 1]>>

\* The ',' option of the format: n >= 0 with a comma between groups of three.
RECURSIVE Grouped(_)
Grouped(n) ==
    IF n < 1000 THEN Digits(n)
    ELSE Grouped(n \div 1000)
         \o <<",", Digit[((n % 1000) \div 100) + 1], Digit[((n % 100) \div 10) + 1],
               Digit[(n % 10) + 1]>>

\* |x| in hundredths, rounded to the nearest, a tie to the even one:
\* <<whole part, hundredths>>.
Hundredths(x) ==
    LET n      == Abs(x.n)
        whole  == n \div x.d
        scaled == (n % x.d) * 100
        down   == scaled \div x.d
        twice  == 2 * (scaled % x.d)
        up     == twice > x.d \/ (twice = x.d /\ down % 2 = 1)
        cents  == IF up THEN down + 1 ELSE down
    IN  IF cents = 100 THEN <<whole + 1, 0>> ELSE <<whole, cents>>

\* The two digits after the point.
Decimals(h) == <<".", Digit[(h[2] \div 10) + 1], Digit[(h[2] % 10) + 1]>>

Sign(x) == IF x.n < 0 THEN <<"-">> ELSE <<>>

\* Mutant: amounts rendered in whole dollars.
FormatCurrencyWhole(x) == <<"$">> \o Sign(x) \o Grouped(Hundredths(x)[1])

\* f'${x:,.2f}'
FormatCurrency(x) ==
    LET h == Hundredths(x)
    IN  <<"$">> \o Sign(x) \o Grouped(h[1]) \o Decimals(h)

\* f'{x:.2f}%'
FormatRate(x) ==
    LET h == Hundredths(x)
    IN  Sign(x) \o Digits(h[1]) \o Decimals(h) \o <<"%">>

\* The dictionary of lines 150-178.
generate_analysis_report(a) ==
    [summary |->
        [purchase_price    |-> FormatCurrency(a.purchase_price),
         total_cash_needed |-> FormatCurrency(a.total_cash_needed),
         monthly_cash_flow |-> FormatCurrency(a.monthly_cash_flow),
         annual_cash_flow  |-> FormatCurrency(a.annual_cash_flow)],
     returns |->
        [cash_on_cash_return |-> FormatRate(a.cash_on_cash_return),
         cap_rate            |-> FormatRate(a.cap_rate),
         annual_roi          |-> FormatRate(a.annual_roi)],
     purchase_breakdown |->
        [purchase_price |-> FormatCurrency(a.purchase_price),
         down_payment   |-> FormatCurrency(a.down_payment),
         loan_amount    |-> FormatCurrency(a.loan_amount),
         closing_costs  |-> FormatCurrency(a.closing_costs)],
     monthly_breakdown |->
        [rental_income    |-> FormatCurrency(a.monthly_rental_income),
         expenses         |-> FormatCurrency(a.monthly_expenses),
         mortgage_payment |-> FormatCurrency(a.monthly_mortgage_payment),
         net_cash_flow    |-> FormatCurrency(a.monthly_cash_flow)],
     long_term |->
        [total_profit |-> FormatCurrency(a.total_profit),
         total_equity |-> FormatCurrency(a.total_equity)]]

\* No report has been generated.
NoReport == [no_report |-> <<>>]

-----------------------------------------------------------------------------
(* JSON request bodies and their parsing by analyze_property               *)
(* (src/src/api/app.py:147-182).  A JSON object is a function from its     *)
(* keys to JSON values.                                                    *)

JNumber(r) == [t |-> "number", v |-> r, s |-> ""]

JString(str) == [t |-> "string", v |-> Zero, s |-> str]

JNull == [t |-> "null", v |-> Zero, s |-> ""]

ValueError == "ValueError"

TypeError == "TypeError"

KeyError == "KeyError"

\* float(x): a JSON number converts, text that is no number raises ValueError,
\* null raises TypeError.  (The strings of the model are not numerals.)
ToFloat(j) ==
    IF j.t = "number" THEN Returned(j.v)
    ELSE IF j.t = "string" THEN Raised(ValueError)
    ELSE Raised(TypeError)

\* int(x) of a JSON number truncates toward zero.
Truncate(r) == IF r.n < 0 THEN -((-r.n) \div r.d) ELSE r.n \div r.d

ToInt(j) ==
    IF j.t = "number" THEN Returned(R(Truncate(j.v)))
    ELSE IF j.t = "string" THEN Raised(ValueError)
    ELSE Raised(TypeError)

\* The keyword arguments of Property(...) at lines 150-161, in the order they
\* are evaluated, each with the conversion applied to data['property'][key].
PropertyFields ==
    << <<"address", "none">>, <<"city", "none">>, <<"state", "none">>,
       <<"zip_code", "none">>, <<"purchase_price", "float">>,
       <<"property_type", "none">>, <<"bedrooms", "int">>,
       <<"bathrooms", "float">>, <<"square_feet", "int">>,
       <<"year_built", "int">> >>

Convert(kind, j) ==
    IF kind = "float" THEN ToFloat(j)
    ELSE IF kind = "int" THEN ToInt(j)
    ELSE Returned(Zero)

\* What evaluating data['property'][key] with its conversion raises.
PropertyFieldError(obj, field) ==
    IF field[1] \notin DOMAIN obj THEN KeyError ELSE Convert(field[2], obj[field[1]]).error

\* The first exception raised while the arguments are evaluated in order.
RECURSIVE FirstPropertyError(_, _)
FirstPropertyError(obj, i) ==
    IF i > Len(PropertyFields) THEN NoError
    ELSE IF PropertyFieldError(obj, PropertyFields[i]) # NoError
    THEN PropertyFieldError(obj, PropertyFields[i])
    ELSE FirstPropertyError(obj, i + 1)

\* A JSON string, or None for null and for a missing key (dict.get).
GetString(obj, key) ==
    IF key \in DOMAIN obj /\ obj[key].t = "string" THEN obj[key].s ELSE NONE

\* data['property'] parsed into a Property; a missing 'property' is a KeyError.
ParseProperty(data) ==
    IF "property" \notin DOMAIN data THEN [error |-> KeyError, value |-> NoAnalysis]
    ELSE LET obj == data["property"]
             raised == FirstPropertyError(obj, 1)
         IN  IF raised # NoError
             THEN [error |-> raised, value |-> NoAnalysis]
             ELSE [error |-> NoError,
                   value |->
                     [address |-> GetString(obj, "address"),
                      city |-> GetString(obj, "city"),
                      state |-> GetString(obj, "state"),
                      zip_code |-> GetString(obj, "zip_code"),
                      purchase_price |-> ToFloat(obj["purchase_price"]).value,
                      property_type |-> GetString(obj, "property_type"),
                      bedrooms |-> ToInt(obj["bedrooms"]).value.n,
                      bathrooms |-> ToFloat(obj["bathrooms"]).value,
                      square_feet |-> ToInt(obj["square_feet"]).value.n,
                      year_built |-> ToInt(obj["year_built"]).value.n,
                      lot_size |-> NONE, listing_url |-> NONE, mls_number |-> NONE,
                      property_id |-> GetString(obj, "property_id"),
                      created_at |-> NONE, updated_at |-> NONE]]

\* Mutant: the handler's default of vacancy_rate is 0, not the 5 of the dataclass.
AssumptionFieldsWithoutVacancy ==
    << <<"down_payment_percentage", "float", R(20)>>,
       <<"interest_rate", "float", R(7)>>,
       <<"loan_term_years", "int", R(30)>>,
       <<"closing_costs_percentage", "float", R(3)>>,
       <<"monthly_rent", "float", R(0)>>,
       <<"vacancy_rate", "float", R(0)>>,
       <<"other_monthly_income", "float", R(0)>>,
       <<"property_tax_annual", "float", R(0)>>,
       <<"insurance_annual", "float", R(0)>>,
       <<"hoa_monthly", "float", R(0)>>,
       <<"maintenance_percentage", "float", R(10)>>,
       <<"property_management_percentage", "float", R(10)>>,
       <<"utilities_monthly", "float", R(0)>>,
       <<"appreciation_rate", "float", R(3)>>,
       <<"holding_period_years", "int", R(5)>> >>

\* The keyword arguments of FinancialAssumptions(...) at lines 166-182, in
\* order: <<key, conversion, the default of assumptions_data.get>>.
AssumptionFields ==
    << <<"down_payment_percentage", "float", R(20)>>,
       <<"interest_rate", "float", R(7)>>,
       <<"loan_term_years", "int", R(30)>>,
       <<"closing_costs_percentage", "float", R(3)>>,
       <<"monthly_rent", "float", R(0)>>,
       <<"vacancy_rate", "float", R(5)>>,
       <<"other_monthly_income", "float", R(0)>>,
       <<"property_tax_annual", "float", R(0)>>,
       <<"insurance_annual", "float", R(0)>>,
       <<"hoa_monthly", "float", R(0)>>,
       <<"maintenance_percentage", "float", R(10)>>,
       <<"property_management_percentage", "float", R(10)>>,
       <<"utilities_monthly", "float", R(0)>>,
       <<"appreciation_rate", "float", R(3)>>,
       <<"holding_period_years", "int", R(5)>> >>

\* float(assumptions_data.get(key, default)) or int(...) of it.
AssumptionField(obj, field) ==
    Convert(field[2], IF field[1] \in DOMAIN obj THEN obj[field[1]] ELSE JNumber(field[3]))

RECURSIVE FirstAssumptionError(_, _)
FirstAssumptionError(obj, i) ==
    IF i > Len(AssumptionFields) THEN NoError
    ELSE IF AssumptionField(obj, AssumptionFields[i]).error # NoError
    THEN AssumptionField(obj, AssumptionFields[i]).error
    ELSE FirstAssumptionError(obj, i + 1)

\* The JSON object {}.
EmptyJson == [x \in {} |-> JNull]

\* data.get('assumptions', {})
AssumptionsData(data) ==
    IF "assumptions" \in DOMAIN data THEN data["assumptions"] ELSE EmptyJson

ParseAssumptions(data) ==
    LET obj == AssumptionsData(data)
        F(i) == AssumptionField(obj, AssumptionFields[i]).value
        raised == FirstAssumptionError(obj, 1)
    IN  IF raised # NoError
        THEN [error |-> raised, value |-> NoAnalysis]
        ELSE [error |-> NoError,
              value |->
                [down_payment_percentage |-> F(1), interest_rate |-> F(2),
                 loan_term_years |-> F(3).n, closing_costs_percentage |-> F(4),
                 monthly_rent |-> F(5), vacancy_rate |-> F(6),
                 other_monthly_income |-> F(7), property_tax_annual |-> F(8),
                 insurance_annual |-> F(9), hoa_monthly |-> F(10),
                 maintenance_percentage |-> F(11),
                 property_management_percentage |-> F(12),
                 utilities_monthly |-> F(13), appreciation_rate |-> F(14),
                 holding_period_years |-> F(15).n]]

\* Lines 147-185: the property is parsed, then the assumptions, then the
\* analysis is made; the first exception ends the three.
ParseAndAnalyze(data, now) ==
    LET parsed_property == ParseProperty(data)
        parsed_assumptions == ParseAssumptions(data)
    IN  IF parsed_property.error # NoError
        THEN [error |-> parsed_property.error, value |-> NoAnalysis]
        ELSE IF parsed_assumptions.error # NoError
        THEN [error |-> parsed_assumptions.error, value |-> NoAnalysis]
        ELSE calculate_property_analysis(parsed_property.value,
                                         parsed_assumptions.value, now)

\* Mutant: the save is decided by the presence of the key 'property_id' in the
\* body, so that an empty id counts as an id.
HasPropertyKey(data) == "property_id" \in DOMAIN data.property

\* if firestore_service and property_data.property_id (line 188): the id of the
\* parsed property is neither None nor ''.
HasPropertyId(data) == ParseProperty(data).value.property_id \notin {NONE, ""}

\* Mutant: the handler answers 500, as the GET handlers do.
ErrorResponse500(e) ==
    [status |-> 500, success |-> FALSE, error |-> e, analysis |-> NoAnalysis]

\* The except branch of analyze_property (lines 201-205).
\* Mutant: the except branch answers 422.
ErrorResponse422(e) ==
    [status |-> 422, success |-> FALSE, analysis |-> NoAnalysis, error |-> e]

ErrorResponse(e) ==
    [status |-> 400, success |-> FALSE, error |-> e, analysis |-> NoAnalysis]

\* The response of lines 193-199; analysis.to_dict() keeps every field.
AnalysisResponse(a) ==
    [status |-> 200, success |-> TRUE, error |-> NoError, analysis |-> a,
     report |-> generate_analysis_report(a)]

\* Python's truth of an Optional[str]: None and '' are false.
Truthy(str) == str \notin {NONE, ""}

\* FirestoreService.save_analysis of an analysis without analysis_id: the
\* document written under the fresh id (firestore_service.py:122-135).
AnalysisDocument(a, id, created) ==
    [a EXCEPT !.created_at = created, !.analysis_id = id]

\* Mutant: save_analysis may write under an id that is in use.
SaveAnalysisIdsInUse(a, stored, fresh) ==
    IF Truthy(a.analysis_id) THEN {a.analysis_id} ELSE fresh \cup DOMAIN stored

\* The ids save_analysis may write the analysis under (lines 125-135): its
\* analysis_id if it has one (the update branch), else the id of a new
\* document, which Firestore draws outside the ids in use; fresh are the ids
\* it may draw.
SaveAnalysisIds(a, stored, fresh) ==
    IF Truthy(a.analysis_id) THEN {a.analysis_id} ELSE fresh \ DOMAIN stored

\* The collection after doc_ref.set(document) on the document id; a set with
\* merge=True of a dictionary that has every field of the document is the same.
SetDocument(stored, id, document) ==
    [d \in DOMAIN stored \cup {id} |-> IF d = id THEN document ELSE stored[d]]

\* The collection after document(id).delete(); deleting no document is allowed.
DeleteDocument(stored, id) == [d \in DOMAIN stored \ {id} |-> stored[d]]

\* FirestoreService.save_property (firestore_service.py:48-62): the ids the
\* property may be written under, and the document written.
SavePropertyIds(p, stored, fresh) ==
    IF Truthy(p.property_id) THEN {p.property_id} ELSE fresh \ DOMAIN stored

PropertyDocument(p, id, created, updated) ==
    [p EXCEPT !.created_at = created, !.updated_at = updated, !.property_id = id]

\* The Property that get_property returns for no document: None.
NoProperty == [property_id |-> NONE]

\* FirestoreService.get_property: the Property of the document, or None.
get_property(stored, id) == IF id \in DOMAIN stored THEN stored[id] ELSE NoProperty

\* FirestoreService.get_analyses_for_property: the documents with this
\* property_id.  (Their order, by analysis_date, is not modelled.)
get_analyses_for_property(stored, id) ==
    {stored[d] : d \in {x \in DOMAIN stored : stored[x].property_id = id}}

\* FirestoreService.list_properties: at most limit documents of the
\* collection; which ones Firestore streams first is left open.
list_properties(stored, limit) ==
    LET documents == {stored[d] : d \in DOMAIN stored}
    IN  {listed \in SUBSET documents :
            Cardinality(listed) =
                IF limit < Cardinality(documents) THEN limit ELSE Cardinality(documents)}

\* A JSON value as data.get(key) returns it: None for null and a missing key.
GetValue(obj, key) ==
    IF key \notin DOMAIN obj THEN NONE
    ELSE IF obj[key].t = "number" THEN obj[key].v
    ELSE IF obj[key].t = "string" THEN obj[key].s
    ELSE NONE

\* create_property, lines 53-69: the body parsed into a Property.
ParseNewProperty(data) ==
    LET raised == FirstPropertyError(data, 1)
    IN  IF raised # NoError
        THEN [error |-> raised, value |-> NoAnalysis]
        ELSE [error |-> NoError,
              value |->
                [address |-> GetString(data, "address"),
                 city |-> GetString(data, "city"),
                 state |-> GetString(data, "state"),
                 zip_code |-> GetString(data, "zip_code"),
                 purchase_price |-> ToFloat(data["purchase_price"]).value,
                 property_type |-> GetString(data, "property_type"),
                 bedrooms |-> ToInt(data["bedrooms"]).value.n,
                 bathrooms |-> ToFloat(data["bathrooms"]).value,
                 square_feet |-> ToInt(data["square_feet"]).value.n,
                 year_built |-> ToInt(data["year_built"]).value.n,
                 lot_size |-> GetValue(data, "lot_size"),
                 listing_url |-> GetValue(data, "listing_url"),
                 mls_number |-> GetValue(data, "mls_number"),
                 property_id |-> NONE,
                 created_at |-> NONE, updated_at |-> NONE]]

\* The response of create_property, lines 75-78.
CreatedResponse(p) == [status |-> 201, success |-> TRUE, error |-> NoError, property |-> p]

\* The responses of the GET handlers.
\* What a GET handler would answer if it called the absent service instead of
\* testing for it: the AttributeError caught by its except branch.
ServiceAttributeError ==
    [status |-> 500, success |-> FALSE, analysis |-> NoAnalysis,
     error |-> "'NoneType' object has no attribute"]

ServiceUnavailable ==
    [status |-> 503, success |-> FALSE, error |-> "Firestore service not configured"]

NotFound == [status |-> 404, success |-> FALSE, error |-> "Property not found"]

PropertyResponse(p) == [status |-> 200, success |-> TRUE, error |-> NoError, property |-> p]

ListResponse(documents) ==
    [status |-> 200, success |-> TRUE, error |-> NoError, documents |-> documents,
     count |-> Cardinality(documents)]

InternalError(err) == [status |-> 500, success |-> FALSE, error |-> err]

-----------------------------------------------------------------------------
(* The inputs the calls are made with.                                     *)

MaxLoanTermYears == 2

MaxHoldingYears == 2

MaxClock == 1

MaxPrincipalSteps == 25

MaxCalls == 2

\* Property(...) as the tests build it (tests/test_property_analyzer.py:39-50),
\* the optional fields at their dataclass defaults.
BaseProperty ==
    [address |-> "123 Main St", city |-> "San Francisco", state |-> "CA",
     zip_code |-> "94102", purchase_price |-> R(500000),
     property_type |-> "single_family", bedrooms |-> 3, bathrooms |-> R(2),
     square_feet |-> 1500, year_built |-> 2000, lot_size |-> NONE,
     listing_url |-> NONE, mls_number |-> NONE, property_id |-> NONE,
     created_at |-> NONE, updated_at |-> NONE]

PurchasePrices == {R(0), R(1200), R(500000)}

PropertyIds == {NONE, "", "p1"}

Properties ==
    {[BaseProperty EXCEPT !.purchase_price = price] : price \in PurchasePrices}
    \cup {[BaseProperty EXCEPT !.property_id = id] : id \in PropertyIds}

\* FinancialAssumptions(): the dataclass defaults.
DefaultAssumptions ==
    [down_payment_percentage |-> R(20), interest_rate |-> R(7),
     loan_term_years |-> 30, closing_costs_percentage |-> R(3),
     monthly_rent |-> R(0), vacancy_rate |-> R(5), other_monthly_income |-> R(0),
     property_tax_annual |-> R(0), insurance_annual |-> R(0), hoa_monthly |-> R(0),
     maintenance_percentage |-> R(10), property_management_percentage |-> R(10),
     utilities_monthly |-> R(0), appreciation_rate |-> R(3),
     holding_period_years |-> 5]

\* <<interest_rate, loan_term_years, holding_period_years>>.  A rate of 0 is
\* drawn with every term and horizon.  A non-zero rate is drawn as 1200 (a
\* monthly rate of 1) with a term and a horizon of at most one year: there the
\* powers of the annuity formula are exact and stay within TLC's integers.
Financings ==
    {<<R(0), y, h>> : y \in 0..MaxLoanTermYears, h \in 0..MaxHoldingYears}
    \cup {<<R(1200), y, h>> : y \in 0..1, h \in 0..1}

\* <<monthly_rent, vacancy_rate, other_monthly_income>>
Incomes ==
    {<<R(0), R(5), R(0)>>, <<R(3000), R(5), R(0)>>, <<R(3000), R(0), R(0)>>,
     <<R(3000), R(5), R(100)>>}

\* <<property_tax_annual, insurance_annual, hoa_monthly, maintenance_percentage,
\*   property_management_percentage, utilities_monthly, appreciation_rate>>:
\* the dataclass defaults, and a property with every expense and no appreciation.
Expenses ==
    {<<R(0), R(0), R(0), R(10), R(10), R(0), R(3)>>,
     <<R(5000), R(1200), R(50), R(5), R(8), R(100), R(0)>>}

AssumptionsOf(down, closing, fin, inc, exp) ==
    [down_payment_percentage |-> down, interest_rate |-> fin[1],
     loan_term_years |-> fin[2], closing_costs_percentage |-> closing,
     monthly_rent |-> inc[1], vacancy_rate |-> inc[2], other_monthly_income |-> inc[3],
     property_tax_annual |-> exp[1], insurance_annual |-> exp[2], hoa_monthly |-> exp[3],
     maintenance_percentage |-> exp[4], property_management_percentage |-> exp[5],
     utilities_monthly |-> exp[6], appreciation_rate |-> exp[7],
     holding_period_years |-> fin[3]]

Assumptions ==
    {AssumptionsOf(down, closing, fin, inc, exp) :
        down \in {R(0), R(20), R(100)}, closing \in {R(0), R(3)}, fin \in Financings,
        inc \in Incomes, exp \in Expenses}

Principals == {R(k * 20000) : k \in 0..MaxPrincipalSteps}

\* <<annual_rate, years>> of a direct call of calculate_mortgage_payment.
\* <<0, 30>> is the case of tests/test_property_analyzer.py:25-32.
MortgageTerms ==
    {<<R(0), y>> : y \in 0..MaxLoanTermYears} \cup {<<R(0), 30>>}
    \cup {<<R(1200), y>> : y \in 0..1}

MaxAnalyses == 2

\* The ids Firestore may give a new analysis document.
AnalysisIds == {"a" \o ToString(k) : k \in 1..MaxAnalyses}

\* data['property'] with the required key 'address' missing.
NoAddressJson ==
    [city |-> JString("San Francisco"), state |-> JString("CA"),
     zip_code |-> JString("94102"), purchase_price |-> JNumber(R(500000)),
     property_type |-> JString("single_family"), bedrooms |-> JNumber(R(3)),
     bathrooms |-> JNumber(R(2)), square_feet |-> JNumber(R(1500)),
     year_built |-> JNumber(R(2000))]

\* obj with key set to j.
With(obj, key, j) == (key :> j) @@ obj

\* data['property'] of a well-formed request: the property of the tests.
BasePropertyJson == With(NoAddressJson, "address", JString("123 Main St"))

\* data['property'] with 'property_id': 'p1'.
WithId(obj) == With(obj, "property_id", JString("p1"))

\* data['assumptions'] with the rate, the term and the horizon given: the
\* defaults of 7% over 30 years are beyond exact arithmetic in TLC's integers.
BaseAssumptionsJson ==
    [interest_rate |-> JNumber(R(0)), loan_term_years |-> JNumber(R(2)),
     holding_period_years |-> JNumber(R(1))]

\* An all-cash purchase: 100% down.
AllCashJson == With(BaseAssumptionsJson, "down_payment_percentage", JNumber(R(100)))

\* The rent, tax and insurance of the tests.
RentedJson ==
    With(With(With(BaseAssumptionsJson, "monthly_rent", JNumber(R(3000))),
              "property_tax_annual", JNumber(R(5000))),
         "insurance_annual", JNumber(R(1200)))

\* The body {'property': pj, 'assumptions': aj}.
Request(pj, aj) == [property |-> pj, assumptions |-> aj]

\* The request bodies: well-formed ones without an id, with the id 'p1' and
\* with the id ''; all-cash purchases; a price of 0; a term of 2.5 years; a
\* missing address, a price and a rate that are no numbers, and no property.
Requests ==
    {Request(BasePropertyJson, BaseAssumptionsJson),
     Request(WithId(BasePropertyJson), BaseAssumptionsJson),
     Request(With(BasePropertyJson, "property_id", JString("")), BaseAssumptionsJson),
     Request(WithId(BasePropertyJson), RentedJson),
     Request(WithId(BasePropertyJson), AllCashJson),
     Request(BasePropertyJson, AllCashJson),
     Request(WithId(With(BasePropertyJson, "purchase_price", JNumber(R(0)))),
             BaseAssumptionsJson),
     Request(WithId(BasePropertyJson),
             With(BaseAssumptionsJson, "loan_term_years", JNumber(Rat(5, 2)))),
     Request(WithId(NoAddressJson), BaseAssumptionsJson),
     Request(WithId(With(BasePropertyJson, "purchase_price", JString("abc"))),
             BaseAssumptionsJson),
     Request(WithId(BasePropertyJson),
             With(BaseAssumptionsJson, "interest_rate", JString("abc"))),
     [assumptions |-> BaseAssumptionsJson]}

MaxProperties == 2

\* The ids Firestore may give a new property document.
PropertyDocIds == {"p" \o ToString(k) : k \in 1..MaxProperties}

\* The arguments of direct calls of save_property: a property that was never
\* saved, and two that carry the id 'p1', at different prices.
SavedProperties ==
    {BaseProperty, [BaseProperty EXCEPT !.property_id = "p1"],
     [BaseProperty EXCEPT !.property_id = "p1", !.purchase_price = R(1200)]}

\* The bodies of POST /api/properties: a well-formed one, one without
\* 'address', and one whose price is no number.
PropertyJsons ==
    {BasePropertyJson, NoAddressJson,
     With(BasePropertyJson, "purchase_price", JString("abc"))}

\* The 'limit' argument of GET /api/properties: the default of 100, 1, and
\* text that is no number.
Limits == {JNumber(R(100)), JNumber(R(1)), JString("abc")}

\* The readings of datetime.now() while a request is served: one instant, as
\* no handler and no claim about the API compares two times.
RequestTimes == {0}

-----------------------------------------------------------------------------
(* The state and the calls.                                                *)

NoArgs == [property |-> NoAnalysis, assumptions |-> NoAnalysis]

NoCall == [error |-> NONE, value |-> NoAnalysis]

NoPaymentCall ==
    [loan_amount |-> Zero, annual_rate |-> Zero, years |-> 0,
     result |-> [error |-> NONE, value |-> Zero]]

NoRequest == [no_request |-> JNull]

NoResponse == [status |-> 0, success |-> FALSE, error |-> NONE, analysis |-> NoAnalysis]

Init ==
    /\ args = NoArgs
    /\ property_data = NoAnalysis
    /\ assumptions = NoAnalysis
    /\ analysis = NoCall
    /\ payment_call = NoPaymentCall
    /\ calls = 0
    /\ firestore_service \in BOOLEAN
    /\ analyses = [d \in {} |-> NoAnalysis]
    /\ properties = [d \in {} |-> NoAnalysis]
    /\ endpoint = NONE
    /\ request = NoRequest
    /\ response = NoResponse
    /\ report = NoReport

\* A caller builds a Property and a FinancialAssumptions and calls
\* calculate_property_analysis on them.
CalculatePropertyAnalysis ==
    /\ calls = 0
    /\ calls' = 1
    /\ \E p \in Properties, a \in Assumptions, now \in 0..MaxClock :
        /\ args' = [property |-> p, assumptions |-> a]
        /\ property_data' = PropertyAfterAnalysis(p)
        /\ assumptions' = AssumptionsAfterAnalysis(a)
        /\ analysis' = calculate_property_analysis(p, a, now)
        /\ UNCHANGED <<properties, endpoint, report, payment_call, firestore_service, analyses, request, response>>

\* The caller calls again, on the objects the previous call left.
Recalculate ==
    /\ 0 < calls /\ calls < MaxCalls
    /\ calls' = calls + 1
    /\ \E now \in 0..MaxClock :
        /\ args' = [property |-> property_data, assumptions |-> assumptions]
        /\ property_data' = PropertyAfterAnalysis(property_data)
        /\ assumptions' = AssumptionsAfterAnalysis(assumptions)
        /\ analysis' = calculate_property_analysis(property_data, assumptions, now)
        /\ UNCHANGED <<properties, endpoint, report, payment_call, firestore_service, analyses, request, response>>

\* A direct call of calculate_mortgage_payment.
CalculateMortgagePayment ==
    /\ calls < MaxCalls
    /\ calls' = calls + 1
    /\ \E principal \in Principals, terms \in MortgageTerms :
        /\ payment_call' =
              [loan_amount |-> principal, annual_rate |-> terms[1], years |-> terms[2],
               result |-> calculate_mortgage_payment(principal, terms[1], terms[2])]
        /\ UNCHANGED <<properties, endpoint, report, args, property_data, assumptions, analysis,
                       firestore_service, analyses, request, response>>

\* POST /api/analyze (analyze_property): the request fails with 400 at the
\* first exception; otherwise the analysis is saved when the service exists and
\* the property has a non-empty id, and is returned with the id it was given.
AnalyzeProperty ==
    \E data \in Requests, now \in RequestTimes :
        /\ endpoint' = "analyze_property"
        /\ request' = data
        /\ LET outcome == ParseAndAnalyze(data, now)
                result == outcome.value
           IN  IF outcome.error # NoError
               THEN /\ response' = ErrorResponse(outcome.error)
                    /\ UNCHANGED analyses
               ELSE IF firestore_service /\ HasPropertyId(data)
                    THEN \E id \in SaveAnalysisIds(result, analyses, AnalysisIds),
                            created \in RequestTimes :
                            /\ analyses' =
                                  SetDocument(analyses, id, AnalysisDocument(result, id, created))
                            /\ response' =
                                  AnalysisResponse([result EXCEPT !.analysis_id = id])
                    ELSE /\ response' = AnalysisResponse(result)
                         /\ UNCHANGED analyses
        /\ UNCHANGED <<args, property_data, assumptions, analysis, payment_call, calls,
                       firestore_service, properties, report>>

\* POST /api/properties (create_property): 400 at the first exception;
\* otherwise the property is saved when the service exists, and returned with
\* the id it was given.
CreateProperty ==
    \E data \in PropertyJsons, now \in RequestTimes :
        /\ endpoint' = "create_property"
        /\ request' = data
        /\ LET parsed == ParseNewProperty(data)
           IN  IF parsed.error # NoError
               THEN /\ response' = ErrorResponse(parsed.error)
                    /\ UNCHANGED properties
               ELSE IF firestore_service
                    THEN \E id \in SavePropertyIds(parsed.value, properties, PropertyDocIds) :
                            /\ properties' =
                                  SetDocument(properties, id,
                                              PropertyDocument(parsed.value, id, now, now))
                            /\ response' =
                                  CreatedResponse([parsed.value EXCEPT !.property_id = id])
                    ELSE /\ response' = CreatedResponse(parsed.value)
                         /\ UNCHANGED properties
        /\ UNCHANGED <<args, property_data, assumptions, analysis, payment_call, calls,
                       firestore_service, analyses, report>>

\* GET /api/properties/<property_id> (get_property).
GetProperty ==
    \E id \in PropertyDocIds :
        /\ endpoint' = "get_property"
        /\ request' = [property_id |-> id]
        /\ response' =
              IF ~firestore_service THEN ServiceUnavailable
              ELSE IF get_property(properties, id) # NoProperty
              THEN PropertyResponse(get_property(properties, id))
              ELSE NotFound
        /\ UNCHANGED <<args, property_data, assumptions, analysis, payment_call, calls,
                       firestore_service, analyses, properties, report>>

\* GET /api/properties (list_properties): 503 before the limit is read; a
\* limit that is no number is a ValueError, answered with 500.
ListProperties ==
    \E limit \in Limits :
        /\ endpoint' = "list_properties"
        /\ request' = [limit |-> limit]
        /\ IF ~firestore_service THEN response' = ServiceUnavailable
           ELSE IF ToInt(limit).error # NoError
           THEN response' = InternalError(ToInt(limit).error)
           ELSE \E listed \in list_properties(properties, ToInt(limit).value.n) :
                   response' = ListResponse(listed)
        /\ UNCHANGED <<args, property_data, assumptions, analysis, payment_call, calls,
                       firestore_service, analyses, properties, report>>

\* GET /api/properties/<property_id>/analyses (get_property_analyses).
GetPropertyAnalyses ==
    \E id \in PropertyDocIds :
        /\ endpoint' = "get_property_analyses"
        /\ request' = [property_id |-> id]
        /\ response' =
              IF ~firestore_service THEN ServiceUnavailable
              ELSE ListResponse(get_analyses_for_property(analyses, id))
        /\ UNCHANGED <<args, property_data, assumptions, analysis, payment_call, calls,
                       firestore_service, analyses, properties, report>>

\* A direct call of FirestoreService.save_property, on a service that was built.
SaveProperty ==
    /\ firestore_service
    /\ \E p \in SavedProperties, now \in RequestTimes :
        \E id \in SavePropertyIds(p, properties, PropertyDocIds) :
            /\ endpoint' = "save_property"
            /\ request' = [property_data |-> p]
            /\ properties' = SetDocument(properties, id, PropertyDocument(p, id, now, now))
            /\ response' = [returned |-> id]
    /\ UNCHANGED <<args, property_data, assumptions, analysis, payment_call, calls,
                   firestore_service, analyses, report>>

\* A direct call of FirestoreService.delete_property.
DeleteProperty ==
    /\ firestore_service
    /\ \E id \in PropertyDocIds :
            /\ endpoint' = "delete_property"
            /\ request' = [property_id |-> id]
            /\ properties' = DeleteDocument(properties, id)
            /\ response' = [returned |-> TRUE]
    /\ UNCHANGED <<args, property_data, assumptions, analysis, payment_call, calls,
                   firestore_service, analyses, report>>

Next ==
    \/ AnalyzeProperty
    \/ CreateProperty
    \/ GetProperty
    \/ ListProperties
    \/ GetPropertyAnalyses
    \/ SaveProperty
    \/ DeleteProperty

Spec == Init /\ [][Next]_vars

NextAnalyzer == CalculatePropertyAnalysis \/ Recalculate

\* The service used on its own, as the tests use it: no application is loaded.
InitService == Init /\ firestore_service = FALSE

SpecAnalyzer == InitService /\ [][NextAnalyzer]_vars

NextMortgage == CalculateMortgagePayment

SpecMortgage == InitService /\ [][NextMortgage]_vars

\* The keys of data['assumptions'] that analyze_property reads.
AssumptionKeys == {AssumptionFields[i][1] : i \in 1..Len(AssumptionFields)}

\* data['assumptions'] giving the keys of given, each as the number 1 (which is
\* the default of none of them).
AssumptionsJsonGiving(given) == [k \in given |-> JNumber(R(1))]

\* Request bodies whose assumptions omit one key or two keys, or give one key
\* only or none; and a body without 'assumptions'.
AssumptionRequests ==
    {Request(BasePropertyJson, AssumptionsJsonGiving(AssumptionKeys \ {k1, k2})) :
        k1 \in AssumptionKeys, k2 \in AssumptionKeys}
    \cup {Request(BasePropertyJson, AssumptionsJsonGiving({k})) : k \in AssumptionKeys}
    \cup {Request(BasePropertyJson, EmptyJson), [property |-> BasePropertyJson]}

\* Lines 165-182 of analyze_property on their own: the FinancialAssumptions
\* object the handler builds from a request body.
ParseAssumptionsOfRequest ==
    \E data \in AssumptionRequests :
        /\ request' = data
        /\ assumptions' = ParseAssumptions(data).value
        /\ UNCHANGED <<properties, endpoint, report, args, property_data, analysis, payment_call, calls,
                       firestore_service, analyses, response>>

NextAssumptions == ParseAssumptionsOfRequest

SpecAssumptions == InitService /\ [][NextAssumptions]_vars

\* A caller passes the analysis it got to generate_analysis_report, as
\* tests/test_property_analyzer.py:106-107 does.
GenerateAnalysisReport ==
    /\ calls > 0
    /\ analysis.error = NoError
    /\ report = NoReport
    /\ report' = generate_analysis_report(analysis.value)
    /\ UNCHANGED <<args, property_data, assumptions, analysis, payment_call, calls,
                   firestore_service, analyses, properties, endpoint, request, response>>

NextReport == CalculatePropertyAnalysis \/ GenerateAnalysisReport

SpecReport == InitService /\ [][NextReport]_vars

-----------------------------------------------------------------------------
(* The claims about the analyzer.                                          *)

\* calculate_property_analysis has been called and has returned an analysis.
AnalysisReturned == calls > 0 /\ analysis.error = NoError

\* C1: every returned analysis has down_payment = price * down% / 100,
\* closing_costs = price * closing% / 100, loan_amount = price - down_payment
\* and total_cash_needed = down_payment + closing_costs; a price of 500000 at
\* 20% down and 3% closing costs gives 100000, 400000, 15000 and 115000.
C1_PurchaseBreakdown ==
    AnalysisReturned =>
        LET price == args.property.purchase_price
            a     == args.assumptions
            r     == analysis.value
        IN  /\ r.purchase_price = price
            /\ r.down_payment = RDiv(RMul(price, a.down_payment_percentage), R(100))
            /\ r.closing_costs = RDiv(RMul(price, a.closing_costs_percentage), R(100))
            /\ r.loan_amount = RSub(price, r.down_payment)
            /\ r.total_cash_needed = RAdd(r.down_payment, r.closing_costs)
            /\ (price = R(500000) /\ a.down_payment_percentage = R(20)
                  /\ a.closing_costs_percentage = R(3)
                => /\ r.down_payment = R(100000)
                   /\ r.loan_amount = R(400000)
                   /\ r.closing_costs = R(15000)
                   /\ r.total_cash_needed = R(115000))

C1_Witness ==
    /\ AnalysisReturned
    /\ args.property.purchase_price = R(500000)
    /\ args.assumptions.down_payment_percentage = R(20)
    /\ args.assumptions.closing_costs_percentage = R(3)
    /\ analysis.value.total_cash_needed = R(115000)

\* C2: every returned analysis has monthly_cash_flow = monthly_rental_income
\* - monthly_expenses - monthly_mortgage_payment and annual_cash_flow = 12 *
\* monthly_cash_flow, with monthly_rental_income = rent - rent * vacancy / 100
\* + other income; the cash flow may be negative.
C2_CashFlow ==
    AnalysisReturned =>
        LET a == args.assumptions
            r == analysis.value
        IN  /\ r.monthly_cash_flow =
                  RSub(RSub(r.monthly_rental_income, r.monthly_expenses),
                       r.monthly_mortgage_payment)
            /\ r.annual_cash_flow = RMul(R(12), r.monthly_cash_flow)
            /\ r.monthly_rental_income =
                  RAdd(RSub(a.monthly_rent,
                            RDiv(RMul(a.monthly_rent, a.vacancy_rate), R(100))),
                       a.other_monthly_income)

\* A returned analysis whose cash flow is negative, with rent, vacancy and a
\* mortgage payment all at work.
C2_Witness ==
    /\ AnalysisReturned
    /\ analysis.value.monthly_cash_flow.n < 0
    /\ RGtZero(analysis.value.monthly_mortgage_payment)
    /\ RGtZero(args.assumptions.monthly_rent)
    /\ RGtZero(args.assumptions.vacancy_rate)

\* C4 (as claimed): with a purchase price of 0 the call returns an analysis
\* whose cap_rate is 0, and raises nothing.
C4_ZeroPriceReturnsZeroCapRate ==
    calls > 0 /\ RIsZero(args.property.purchase_price) =>
        analysis.error = NoError /\ analysis.value.cap_rate = Zero

\* The call C4 is about: a price of 0 on a loan with a term, where the mortgage
\* payment is computed (it is 0) and the division by loan_amount then raises.
C4_ZeroPriceRaises ==
    /\ calls > 0
    /\ RIsZero(args.property.purchase_price)
    /\ args.assumptions.loan_term_years > 0
    /\ analysis.error = ZeroDivisionError

\* C5 (as claimed): with total_cash_needed 0 the call returns an analysis whose
\* cash_on_cash_return is 0, and raises nothing.
C5_ZeroCashNeededReturnsZeroReturn ==
    calls > 0 /\ RIsZero(total_cash_needed(args.property, args.assumptions)) =>
        analysis.error = NoError /\ analysis.value.cash_on_cash_return = Zero

\* The calls C5 is about.  Nothing down and no closing costs on a priced
\* property: the call returns, with a cash-on-cash return of 0.
C5_ZeroCashNeededReturns ==
    /\ AnalysisReturned
    /\ RGtZero(args.property.purchase_price)
    /\ RIsZero(analysis.value.total_cash_needed)
    /\ analysis.value.cash_on_cash_return = Zero

\* A price of 0, where total_cash_needed is 0 as well: the call raises.
C5_ZeroCashNeededRaises ==
    /\ calls > 0
    /\ RIsZero(args.property.purchase_price)
    /\ RIsZero(total_cash_needed(args.property, args.assumptions))
    /\ args.assumptions.loan_term_years > 0
    /\ args.assumptions.interest_rate = R(1200)
    /\ analysis.error = ZeroDivisionError

\* C7: in every returned analysis annual_roi equals cash_on_cash_return: both
\* are annual_cash_flow / total_cash_needed * 100, and both are 0 when
\* total_cash_needed is not positive.
C7_RoiIsCashOnCash ==
    AnalysisReturned =>
        LET r == analysis.value
        IN  /\ r.annual_roi = r.cash_on_cash_return
            /\ IF RGtZero(r.total_cash_needed)
               THEN r.annual_roi =
                       RMul(RDiv(r.annual_cash_flow, r.total_cash_needed), R(100))
               ELSE r.annual_roi = Zero /\ r.cash_on_cash_return = Zero

\* A returned analysis with closing costs, cash needed and a non-zero return.
C7_Witness ==
    /\ AnalysisReturned
    /\ RGtZero(analysis.value.closing_costs)
    /\ RGtZero(analysis.value.total_cash_needed)
    /\ ~RIsZero(analysis.value.annual_roi)

\* The analysis with its analysis_date blanked.
WithoutDate(result) ==
    IF result.error = NoError
    THEN [result EXCEPT !.value.analysis_date = 0]
    ELSE result

C9_IdentityFields ==
    AnalysisReturned =>
        LET id == args.property.property_id
            r  == analysis.value
        IN  /\ r.property_id = (IF id = NONE THEN "" ELSE id)
            /\ r.irr = NONE
            /\ r.analysis_id = NONE

C9_Witness ==
    /\ AnalysisReturned
    /\ args.property.property_id = "p1"
    /\ analysis.value.property_id = "p1"

C9_WitnessNoId ==
    /\ AnalysisReturned
    /\ args.property.property_id = NONE
    /\ analysis.value.property_id = ""

\* C10: monthly_expenses is tax/12 + insurance/12 + hoa + rent * maintenance%
\* / 100 + rent * management% / 100 + utilities, on the gross rent: it is the
\* same for every vacancy_rate and every other_monthly_income.
C10_ExpensesOnGrossRent ==
    AnalysisReturned =>
        LET p == args.property
            a == args.assumptions
            r == analysis.value
        IN  /\ r.monthly_expenses =
                  RAdd(RAdd(RAdd(RAdd(RAdd(RDiv(a.property_tax_annual, R(12)),
                                           RDiv(a.insurance_annual, R(12))),
                                      a.hoa_monthly),
                                 RDiv(RMul(a.monthly_rent, a.maintenance_percentage),
                                      R(100))),
                            RDiv(RMul(a.monthly_rent, a.property_management_percentage),
                                 R(100))),
                       a.utilities_monthly)
            /\ \A vacancy \in {R(0), R(5), R(50)}, other \in {R(0), R(100)} :
                  LET b == [a EXCEPT !.vacancy_rate = vacancy,
                                     !.other_monthly_income = other]
                      again == calculate_property_analysis(p, b, 0)
                  IN  /\ again.error = NoError
                      /\ again.value.monthly_expenses = r.monthly_expenses

\* A returned analysis with rent, vacancy and every expense at work.
C10_Witness ==
    /\ AnalysisReturned
    /\ RGtZero(args.assumptions.monthly_rent)
    /\ RGtZero(args.assumptions.vacancy_rate)
    /\ RGtZero(args.assumptions.other_monthly_income)
    /\ RGtZero(args.assumptions.property_tax_annual)
    /\ RGtZero(args.assumptions.utilities_monthly)

-----------------------------------------------------------------------------
(* The claim about calculate_mortgage_payment.                             *)

\* C3: for a principal P > 0 and a term T > 0, a call at a rate of 0 returns
\* P / (T * 12) and does not raise: the annuity formula is not evaluated.
C3_ZeroRatePayment ==
    (/\ calls > 0
     /\ RGtZero(payment_call.loan_amount)
     /\ payment_call.years > 0
     /\ RIsZero(payment_call.annual_rate))
    => /\ payment_call.result.error = NoError
       /\ payment_call.result.value =
             Rat(payment_call.loan_amount.n,
                 payment_call.loan_amount.d * payment_call.years * 12)

\* The tested case: 300000 at 0% over 30 years is 300000 / 360.
C3_Witness ==
    /\ calls > 0
    /\ payment_call.loan_amount = R(300000)
    /\ payment_call.years = 30
    /\ RIsZero(payment_call.annual_rate)
    /\ payment_call.result = Returned(Rat(2500, 3))

-----------------------------------------------------------------------------
(* The claim about POST /api/analyze.                                      *)

\* The last request parsed into a Property and a FinancialAssumptions.
RequestParsed ==
    /\ endpoint = "analyze_property"
    /\ ParseProperty(request).error = NoError
    /\ ParseAssumptions(request).error = NoError

\* C6: when loan_amount is 0 (an all-cash purchase) the analysis raises a
\* division-by-zero error instead of returning, and POST /api/analyze answers
\* 400 with success = false.
C6_AllCashPurchaseIs400 ==
    (/\ RequestParsed
     /\ RIsZero(loan_amount(ParseProperty(request).value, ParseAssumptions(request).value)))
    => /\ response.status = 400
       /\ response.success = FALSE
       /\ response.error = ZeroDivisionError
       /\ response.analysis = NoAnalysis

\* An all-cash purchase of a priced property: 100% down on 500000.
C6_Witness ==
    /\ RequestParsed
    /\ ParseProperty(request).value.purchase_price = R(500000)
    /\ ParseAssumptions(request).value.down_payment_percentage = R(100)
    /\ response.status = 400

-----------------------------------------------------------------------------
(* The claim about the defaults of the assumptions.                        *)

\* C11: an assumption the request omits is parsed to the default that
\* FinancialAssumptions() gives it: 20% down, 7% interest, 30 years, 3%
\* closing costs, 5% vacancy, 10% maintenance, 10% management, 3%
\* appreciation, 5 years of holding, and 0 for every dollar amount.
C11_SameDefaults ==
    request # NoRequest =>
        /\ \A k \in AssumptionKeys \ DOMAIN AssumptionsData(request) :
              assumptions[k] = DefaultAssumptions[k]
        /\ DOMAIN DefaultAssumptions = AssumptionKeys
        /\ DOMAIN assumptions = AssumptionKeys
        /\ DefaultAssumptions.down_payment_percentage = R(20)
        /\ DefaultAssumptions.interest_rate = R(7)
        /\ DefaultAssumptions.loan_term_years = 30
        /\ DefaultAssumptions.closing_costs_percentage = R(3)
        /\ DefaultAssumptions.vacancy_rate = R(5)
        /\ DefaultAssumptions.maintenance_percentage = R(10)
        /\ DefaultAssumptions.property_management_percentage = R(10)
        /\ DefaultAssumptions.appreciation_rate = R(3)
        /\ DefaultAssumptions.holding_period_years = 5
        /\ \A k \in {"monthly_rent", "other_monthly_income", "property_tax_annual",
                      "insurance_annual", "hoa_monthly", "utilities_monthly"} :
              DefaultAssumptions[k] = R(0)

\* A request without 'assumptions': every assumption is omitted, and the
\* object the handler builds is FinancialAssumptions().
C11_Witness ==
    /\ request # NoRequest
    /\ "assumptions" \notin DOMAIN request
    /\ assumptions = DefaultAssumptions

-----------------------------------------------------------------------------
(* The claim about generate_analysis_report.                               *)

\* The entries of the report that show amounts, and those that show rates.
CurrencyEntries ==
    {report.summary[k] : k \in DOMAIN report.summary}
    \cup {report.purchase_breakdown[k] : k \in DOMAIN report.purchase_breakdown}
    \cup {report.monthly_breakdown[k] : k \in DOMAIN report.monthly_breakdown}
    \cup {report.long_term[k] : k \in DOMAIN report.long_term}

RateEntries == {report.returns[k] : k \in DOMAIN report.returns}

IsDigit(c) == \E i \in 1..Len(Digit) : Digit[i] = c

\* The string has one decimal point, with exactly two digits after it, at its
\* end (upto = 0) or before its last character (upto = 1).
TwoDecimals(str, upto) ==
    LET last == Len(str) - upto
    IN  /\ last >= 4
        /\ str[last - 2] = "."
        /\ IsDigit(str[last - 1]) /\ IsDigit(str[last]) /\ IsDigit(str[last - 3])
        /\ \A i \in 1..Len(str) : str[i] = "." => i = last - 2

\* C12: the report has exactly the sections summary, returns,
\* purchase_breakdown, monthly_breakdown and long_term; every amount starts
\* with the currency symbol and has exactly two decimal digits; every rate has
\* two decimal digits and ends with a percent sign; purchase_price renders the
\* same in summary and purchase_breakdown, and monthly_cash_flow the same as
\* summary.monthly_cash_flow and monthly_breakdown.net_cash_flow.
C12_ReportFormat ==
    report # NoReport =>
        /\ DOMAIN report =
              {"summary", "returns", "purchase_breakdown", "monthly_breakdown", "long_term"}
        /\ \A str \in CurrencyEntries :
              /\ str[1] = "$"
              /\ \A i \in 2..Len(str) : str[i] # "$"
              /\ TwoDecimals(str, 0)
        /\ \A str \in RateEntries :
              /\ str[Len(str)] = "%"
              /\ TwoDecimals(str, 1)
        /\ report.summary.purchase_price = report.purchase_breakdown.purchase_price
        /\ report.summary.monthly_cash_flow = report.monthly_breakdown.net_cash_flow

\* The report of a purchase of 500000 at 20% down and 3% closing costs,
\* interest-free over 2 years, let at 3000 with every expense: the strings are
\* the ones the program prints for it.
C12_Witness ==
    /\ report # NoReport
    /\ report.summary.purchase_price = <<"$", "5", "0", "0", ",", "0", "0", "0", ".", "0", "0">>
    /\ report.summary.total_cash_needed = <<"$", "1", "1", "5", ",", "0", "0", "0", ".", "0", "0">>
    /\ report.summary.monthly_cash_flow = <<"$", "-", "1", "4", ",", "7", "7", "3", ".", "3", "3">>
    /\ report.summary.annual_cash_flow = <<"$", "-", "1", "7", "7", ",", "2", "8", "0", ".", "0", "0">>
    /\ report.returns.cash_on_cash_return = <<"-", "1", "5", "4", ".", "1", "6", "%">>
    /\ report.returns.cap_rate = <<"4", ".", "5", "4", "%">>
    /\ report.monthly_breakdown.expenses = <<"$", "1", ",", "0", "5", "6", ".", "6", "7">>
    /\ report.monthly_breakdown.mortgage_payment = <<"$", "1", "6", ",", "6", "6", "6", ".", "6", "7">>
    /\ report.long_term.total_profit = <<"$", "-", "6", "9", ",", "5", "6", "0", ".", "0", "0">>

-----------------------------------------------------------------------------
(* The claims about financing and about the holding period.                *)

\* The assumptions a with the financing replaced: fin is <<down payment %,
\* closing costs %, interest rate, loan term>>.
Refinanced(a, fin) ==
    [a EXCEPT !.down_payment_percentage = fin[1], !.closing_costs_percentage = fin[2],
              !.interest_rate = fin[3], !.loan_term_years = fin[4]]

\* Other financings of the purchase a is about: one of the four assumptions
\* changed, or all of them.  The rate of 1200 comes with its term of one year,
\* for a horizon of at most one year (see Financings).
Refinancings(a) ==
    {<<R(50), a.closing_costs_percentage, a.interest_rate, a.loan_term_years>>,
     <<a.down_payment_percentage, R(1), a.interest_rate, a.loan_term_years>>,
     <<a.down_payment_percentage, a.closing_costs_percentage, R(0), 2>>}
    \cup IF a.holding_period_years <= 1
         THEN {<<a.down_payment_percentage, a.closing_costs_percentage, R(1200), 1>>,
               <<R(50), R(1), R(1200), 1>>}
         ELSE {<<R(50), R(1), R(0), 2>>}

\* C19: the cap_rate of a returned analysis is (monthly_rental_income -
\* monthly_expenses) * 12 / purchase_price * 100, and an analysis of the same
\* property under assumptions that differ only in down_payment_percentage,
\* interest_rate, loan_term_years or closing_costs_percentage has the same
\* cap_rate, monthly_rental_income and monthly_expenses.
C19_CapRateIgnoresFinancing ==
    AnalysisReturned =>
        LET p == args.property
            a == args.assumptions
            r == analysis.value
        IN  /\ r.cap_rate =
                  RMul(RDiv(RMul(RSub(r.monthly_rental_income, r.monthly_expenses), R(12)),
                            p.purchase_price),
                       R(100))
            /\ \A fin \in Refinancings(a) :
                  LET again == calculate_property_analysis(p, Refinanced(a, fin), 0)
                  IN  again.error = NoError =>
                         /\ again.value.cap_rate = r.cap_rate
                         /\ again.value.monthly_rental_income = r.monthly_rental_income
                         /\ again.value.monthly_expenses = r.monthly_expenses

\* A returned analysis with net operating income and a mortgage payment, whose
\* refinancing at the other rate returns too, with another payment.
C19_Witness ==
    /\ AnalysisReturned
    /\ RGtZero(analysis.value.cap_rate)
    /\ RGtZero(analysis.value.monthly_mortgage_payment)
    /\ args.assumptions.interest_rate = R(0)
    /\ LET again == calculate_property_analysis(args.property,
                        Refinanced(args.assumptions,
                                   <<args.assumptions.down_payment_percentage,
                                     args.assumptions.closing_costs_percentage, R(1200), 1>>), 0)
       IN  /\ again.error = NoError
           /\ again.value.monthly_mortgage_payment # analysis.value.monthly_mortgage_payment
           /\ again.value.monthly_cash_flow # analysis.value.monthly_cash_flow

\* C20: with holding_period_years = 0 and loan_amount > 0, future_value is
\* purchase_price, principal_paid is 0, total_equity is down_payment and
\* total_profit is -closing_costs, which is total_equity - total_cash_needed.
C20_ZeroHoldingPeriod ==
    (/\ AnalysisReturned
     /\ args.assumptions.holding_period_years = 0
     /\ RGtZero(analysis.value.loan_amount))
    => LET p == args.property
           a == args.assumptions
           r == analysis.value
       IN  /\ future_value(p, a) = p.purchase_price
           /\ principal_paid(p, a) = Zero
           /\ r.total_equity = r.down_payment
           /\ r.total_profit = RNeg(r.closing_costs)
           /\ r.total_profit = RSub(r.total_equity, r.total_cash_needed)

\* A returned analysis of a mortgaged purchase held for 0 years, with closing
\* costs, appreciation, a cash flow and interest.
C20_Witness ==
    /\ AnalysisReturned
    /\ args.assumptions.holding_period_years = 0
    /\ RGtZero(analysis.value.loan_amount)
    /\ RGtZero(analysis.value.closing_costs)
    /\ RGtZero(args.assumptions.appreciation_rate)
    /\ RGtZero(args.assumptions.interest_rate)
    /\ ~RIsZero(analysis.value.annual_cash_flow)

-----------------------------------------------------------------------------
(* The claims about the API and the document store.                        *)

\* C13: every request leaves each stored analysis as it is, under its id; a
\* request changes the analyses collection only by adding one document, and
\* then it is a POST /api/analyze whose response carries the id of the new
\* document, an id that was not in use; so the stored analyses of a property
\* only grow.
C13_AnalysesAppendOnly ==
    [][/\ \A d \in DOMAIN analyses : d \in DOMAIN analyses' /\ analyses'[d] = analyses[d]
       /\ \A id \in PropertyIds :
             get_analyses_for_property(analyses, id)
                \subseteq get_analyses_for_property(analyses', id)
       /\ (analyses' # analyses =>
             /\ endpoint' = "analyze_property"
             /\ response'.status = 200
             /\ response'.analysis.analysis_id \notin DOMAIN analyses
             /\ DOMAIN analyses' = DOMAIN analyses \cup {response'.analysis.analysis_id}
             /\ analyses'[response'.analysis.analysis_id].analysis_id =
                   response'.analysis.analysis_id)]_vars

\* Two different analyses of the property 'p1' are stored, and requests of
\* other kinds have followed: the last deleted the property.
C13_Witness ==
    /\ endpoint = "delete_property"
    /\ request.property_id = "p1"
    /\ Cardinality(get_analyses_for_property(analyses, "p1")) = 2

\* C14: while there is no Firestore service, GET of a property, of the list of
\* properties and of a property's analyses answer 503 with success false
\* (whatever their arguments); POST /api/properties of a well-formed body
\* answers 201 with the property and its property_id unset; POST /api/analyze
\* of a request whose analysis can be computed answers 200 with that analysis,
\* its analysis_id unset; and nothing is stored.
C14_WithoutService ==
    (~firestore_service /\ endpoint # NONE) =>
        /\ DOMAIN analyses = {} /\ DOMAIN properties = {}
        /\ endpoint \in {"get_property", "list_properties", "get_property_analyses"} =>
              /\ response.status = 503
              /\ response.success = FALSE
              /\ response.error = "Firestore service not configured"
        /\ (endpoint = "create_property" /\ ParseNewProperty(request).error = NoError) =>
              /\ response.status = 201
              /\ response.success = TRUE
              /\ response.property = ParseNewProperty(request).value
              /\ response.property.property_id = NONE
        /\ (endpoint = "analyze_property"
               /\ \A now \in RequestTimes : ParseAndAnalyze(request, now).error = NoError) =>
              /\ response.status = 200
              /\ response.success = TRUE
              /\ \E now \in RequestTimes :
                    response = AnalysisResponse(ParseAndAnalyze(request, now).value)
              /\ response.analysis.analysis_id = NONE
        /\ endpoint \in {"get_property", "list_properties", "get_property_analyses",
                          "create_property", "analyze_property"}

\* Without a service, the list of properties was asked for with a limit that is
\* not a number, and the answer is 503.
C14_Witness ==
    /\ ~firestore_service
    /\ endpoint = "list_properties"
    /\ request.limit = JString("abc")
    /\ response.status = 503

\* Without a service, an analysis of a property that carries the id 'p1' was
\* asked for and returned.
C14_WitnessAnalyze ==
    /\ ~firestore_service
    /\ endpoint = "analyze_property"
    /\ ParseProperty(request).value.property_id = "p1"
    /\ response.status = 200
    /\ response.analysis.cap_rate # Zero

\* C15: a POST /api/analyze that computes its analysis stores it exactly when
\* the service exists and the property carries a property_id that is neither
\* None nor ''; it then adds one document, under an id not in use, which is the
\* analysis of the response and has the response's analysis_id and the
\* property's id; in every other case, and when the request fails, the analyses
\* are left as they were and a returned analysis has analysis_id None. And
\* every stored analysis has a property_id that is neither None nor ''.
C15_PersistsIffServiceAndId ==
    /\ [](\A d \in DOMAIN analyses :
            /\ analyses[d].property_id \notin {NONE, ""}
            /\ analyses[d].analysis_id = d)
    /\ [][endpoint' = "analyze_property" =>
            IF response'.status # 200
            THEN analyses' = analyses
            ELSE LET id  == response'.analysis.analysis_id
                     pid == ParseProperty(request').value.property_id
                 IN  IF firestore_service /\ pid # NONE /\ pid # ""
                     THEN /\ id # NONE
                          /\ id \notin DOMAIN analyses
                          /\ DOMAIN analyses' = DOMAIN analyses \cup {id}
                          /\ \A d \in DOMAIN analyses : analyses'[d] = analyses[d]
                          /\ analyses'[id].property_id = pid
                          /\ \E created \in RequestTimes :
                                analyses'[id] =
                                   AnalysisDocument(response'.analysis, id, created)
                     ELSE /\ analyses' = analyses
                          /\ id = NONE]_vars

\* With the service, the last request analysed a property whose property_id
\* is '', and nothing was added to the one analysis stored before.
C15_Witness ==
    /\ firestore_service
    /\ endpoint = "analyze_property"
    /\ response.status = 200
    /\ ParseProperty(request).value.property_id = ""
    /\ response.analysis.analysis_id = NONE
    /\ Cardinality(DOMAIN analyses) = 1

\* With the service, the last request analysed the property 'p1' and the
\* analysis of the response is stored under the response's analysis_id.
C15_WitnessStored ==
    /\ firestore_service
    /\ endpoint = "analyze_property"
    /\ response.status = 200
    /\ response.analysis.analysis_id \in DOMAIN analyses
    /\ analyses[response.analysis.analysis_id].property_id = "p1"

\* C16: every stored analysis is owned by a stored property: its property_id
\* is the id of a document of the properties collection.
C16_AnalysesOwnedByStoredProperty ==
    \A d \in DOMAIN analyses : analyses[d].property_id \in DOMAIN properties

\* The property 'p1' was created and analysed, and delete_property('p1') has
\* removed it: its analysis is still stored and is still returned for 'p1'.
C16_AnalysisOutlivesProperty ==
    /\ endpoint = "delete_property"
    /\ request.property_id = "p1"
    /\ "p1" \notin DOMAIN properties
    /\ get_analyses_for_property(analyses, "p1") # {}

\* C17: a POST /api/properties whose body cannot be made a Property, and a
\* POST /api/analyze whose body cannot be parsed or whose analysis raises,
\* answer 400 with success false and the message of the exception, and leave
\* both collections as they were; and a POST answers 200, 201 or 400 only.
C17_FailingPostIs400 ==
    [][endpoint' \in {"create_property", "analyze_property"} =>
         LET failure ==
               IF endpoint' = "create_property"
               THEN ParseNewProperty(request').error
               ELSE ParseAndAnalyze(request', CHOOSE now \in RequestTimes : TRUE).error
         IN  /\ response'.status \in {200, 201, 400}
             /\ failure # NoError =>
                   /\ response'.status = 400
                   /\ response'.success = FALSE
                   /\ response'.error = failure
                   /\ analyses' = analyses
                   /\ properties' = properties
             /\ response'.status = 400 => failure # NoError]_vars

\* A property and an analysis are stored, and the last request was a
\* POST /api/properties of a body whose purchase_price is not a number: 400.
C17_Witness ==
    /\ endpoint = "create_property"
    /\ request.purchase_price = JString("abc")
    /\ response.status = 400
    /\ DOMAIN properties # {}
    /\ DOMAIN analyses # {}

\* The same for a POST /api/analyze of an all-cash purchase of 'p1', whose
\* analysis divides by zero.
C17_WitnessAnalyze ==
    /\ endpoint = "analyze_property"
    /\ response.status = 400
    /\ response.error = ZeroDivisionError
    /\ ParseProperty(request).value.property_id = "p1"
    /\ DOMAIN properties # {}
    /\ DOMAIN analyses # {}

\* C18: save_property of a property without property_id adds one document,
\* under an id not in use, stores that id as its property_id and returns it;
\* save_property of a property with a property_id writes the document of that
\* id, returns the same id and does not change the number of stored
\* properties; after either, get_property of the returned id is the saved
\* property except for its timestamps (and the id given to a new one), and no
\* other document has changed.  get_property of an id with no document is
\* answered 404.
C18_SavePropertyIdentity ==
    [][/\ endpoint' = "save_property" =>
            LET p  == request'.property_data
                id == response'.returned
            IN  /\ IF Truthy(p.property_id)
                   THEN /\ id = p.property_id
                        /\ Cardinality(DOMAIN properties') = Cardinality(DOMAIN properties)
                   ELSE /\ id \notin DOMAIN properties
                        /\ DOMAIN properties' = DOMAIN properties \cup {id}
                /\ get_property(properties', id) # NoProperty
                /\ \E created, updated \in RequestTimes :
                      get_property(properties', id) =
                         [p EXCEPT !.property_id = id, !.created_at = created,
                                   !.updated_at = updated]
                /\ \A d \in DOMAIN properties \ {id} :
                      d \in DOMAIN properties' /\ properties'[d] = properties[d]
       /\ (endpoint' = "get_property" /\ firestore_service) =>
            IF request'.property_id \in DOMAIN properties
            THEN response' = PropertyResponse(properties[request'.property_id])
            ELSE response'.status = 404 /\ response'.success = FALSE]_vars

====
